---- MODULE Spec2Model ----
(***************************************************************************)
(* A model of convert.py, the Hoarder -> Linkwarden export converter.      *)
(*                                                                         *)
(* Strings whose characters the code inspects (tags, timestamps) are       *)
(* sequences of one-character strings.  Time is scaled down: a datetime is *)
(* a wall-clock ordinal in 1..MaxOrd (datetime.min .. datetime.max) with   *)
(* an optional UTC offset, the Unix epoch is the UTC ordinal EpochOrd, and *)
(* the extended date-time text of an instant is one digit (the ordinal,    *)
(* fixed width like YYYY-MM-DD) followed by an optional signed one-digit   *)
(* offset (fixed width like +HH:MM).                                       *)
(***************************************************************************)
EXTENDS Integers, Sequences, FiniteSets, TLC

VARIABLES
    tags_in, tags_out, tags_twice,          \* normalise_tags: argument, result, result of the result
    ts_value, ts_default, ts_result,        \* parse_timestamp: value, default_dt, outcome
    pc, args, in_file, hoarder_data,        \* main: position, arguments, input file, parsed document
    grouped_links, now_dt,                  \* collect_links' result and its clock reading
    heap, base_payload, payloads, base0,    \* object heap, skeleton, returned documents, skeleton as first given
    out_file, exit_status, stderr, stdout   \* the process's effects

vars == << tags_in, tags_out, tags_twice, ts_value, ts_default, ts_result,
           pc, args, in_file, hoarder_data, grouped_links, now_dt,
           heap, base_payload, payloads, base0,
           out_file, exit_status, stderr, stdout >>

tagVars  == << tags_in, tags_out, tags_twice >>
timeVars == << ts_value, ts_default, ts_result >>
runVars  == << pc, args, in_file, hoarder_data, grouped_links, now_dt,
               heap, base_payload, payloads, base0,
               out_file, exit_status, stderr, stdout >>

(***************************************************************************)
(* Bounds of the model.                                                    *)
(***************************************************************************)
MaxEntries == 2     \* most entries in the bookmarks list of the input file
MaxGroups == 3      \* most groups in a grouping given to build_linkwarden_payload
MaxRecords == 2     \* most records in one group
MaxCalls  == 2      \* most calls of build_linkwarden_payload with one skeleton
MaxMutations == 2   \* most changes a caller makes to the documents it got back
MaxTags   == 3      \* longest tag list given to normalise_tags
MaxTagLen == 2      \* longest tag string
MaxTsLen  == 3      \* longest createdAt string
NumMax    == 18     \* numeric createdAt values range over -NumMax..NumMax
MaxOrd    == 6      \* datetime.max, as an ordinal (datetime.min is ordinal 1)
EpochOrd  == 3      \* the ordinal of 1970-01-01T00:00:00 UTC
GmtimeMax == 12     \* largest |seconds| gmtime() converts (the year fits a C int)
TimeTMax  == 16     \* largest |seconds| that fits the platform time_t

(***************************************************************************)
(* JSON values.  k is the Python type after json.load; n the number; s the *)
(* characters of a string; l the items of a list.                          *)
(***************************************************************************)
NoChars == << >>

\* A local variable: body F evaluated with x bound to the value of v,
\* which is computed once.
Once(v, F(_)) == CHOOSE r \in {F(x) : x \in {v}} : TRUE
Item(k, n, s) == [k |-> k, n |-> n, s |-> s]
JVal(k, n, s, l) == [k |-> k, n |-> n, s |-> s, l |-> l]
JAbsent  == JVal("absent", 0, NoChars, << >>)   \* dict.get() found no key: None
JNull    == JVal("null", 0, NoChars, << >>)     \* JSON null: None
JNum(n)  == JVal("num", n, NoChars, << >>)      \* int or finite float
JNaN     == JVal("nan", 0, NoChars, << >>)      \* float('nan')
JInf     == JVal("inf", 0, NoChars, << >>)      \* float('inf')
JBool(b) == JVal("bool", IF b THEN 1 ELSE 0, NoChars, << >>)
JStr(s)  == JVal("str", 0, s, << >>)
JList(l) == JVal("list", 0, NoChars, l)
JObj     == JVal("obj", 0, NoChars, << >>)      \* a non-empty JSON object

IsNone(v) == v.k \in {"absent", "null"}

\* Python truthiness, as used by `x or default`.
Truthy(v) ==
    CASE v.k \in {"absent", "null"} -> FALSE
      [] v.k \in {"num", "bool"}    -> v.n # 0
      [] v.k = "str"                -> v.s # << >>
      [] v.k = "list"               -> v.l # << >>
      [] OTHER                      -> TRUE

(***************************************************************************)
(* str methods.                                                            *)
(***************************************************************************)
Digits == << "0", "1", "2", "3", "4", "5", "6", "7", "8", "9" >>
IsDigitChar(c) == \E i \in 1..10 : Digits[i] = c
DigitVal(c) == (CHOOSE i \in 1..10 : Digits[i] = c) - 1

RECURSIVE lstrip(_)
lstrip(s) == IF s # << >> /\ Head(s) = " " THEN lstrip(Tail(s)) ELSE s

RECURSIVE rstrip(_)
rstrip(s) ==
    IF s # << >> /\ s[Len(s)] = " " THEN rstrip(SubSeq(s, 1, Len(s) - 1)) ELSE s

\* str.strip()
strip(s) == rstrip(lstrip(s))

\* str.isdigit()
isdigit(s) == s # << >> /\ \A i \in 1..Len(s) : IsDigitChar(s[i])

\* the value float() gives an all-digit string
RECURSIVE DecimalValue(_)
DecimalValue(s) ==
    IF s = << >> THEN 0
    ELSE 10 * DecimalValue(SubSeq(s, 1, Len(s) - 1)) + DigitVal(s[Len(s)])

\* str.endswith() and str.replace()
endswith(s, suffix) ==
    Len(s) >= Len(suffix) /\ SubSeq(s, Len(s) - Len(suffix) + 1, Len(s)) = suffix

RECURSIVE replace(_, _, _)
replace(s, old, new) ==
    IF Len(s) < Len(old) THEN s
    ELSE IF SubSeq(s, 1, Len(old)) = old
         THEN new \o replace(SubSeq(s, Len(old) + 1, Len(s)), old, new)
         ELSE << Head(s) >> \o replace(Tail(s), old, new)

(***************************************************************************)
(* normalise_tags                                                          *)
(***************************************************************************)
RECURSIVE normalise_loop(_, _, _)
normalise_loop(tags, cleaned, seen) ==
    IF tags = << >> THEN cleaned
    ELSE LET tag == Head(tags)
             rest == Tail(tags)
         IN  IF tag.k # "str" THEN normalise_loop(rest, cleaned, seen)
             ELSE LET cleaned_tag == strip(tag.s)
                  IN  IF cleaned_tag = << >> THEN normalise_loop(rest, cleaned, seen)
                      ELSE LET cleaned_tag2 == strip(cleaned_tag)
                           IN  IF cleaned_tag2 = << >> \/ cleaned_tag2 \in seen
                               THEN normalise_loop(rest, cleaned, seen)
                               ELSE normalise_loop(rest, Append(cleaned, cleaned_tag2),
                                                   seen \cup {cleaned_tag2})

\* a variant that remembers the raw tag instead of the cleaned one
RECURSIVE normalise_loop_seen_raw(_, _, _)
normalise_loop_seen_raw(tags, cleaned, seen) ==
    IF tags = << >> THEN cleaned
    ELSE LET tag == Head(tags)
             rest == Tail(tags)
         IN  IF tag.k # "str" THEN normalise_loop_seen_raw(rest, cleaned, seen)
             ELSE LET cleaned_tag == strip(tag.s)
                  IN  IF cleaned_tag = << >> \/ tag.s \in seen
                      THEN normalise_loop_seen_raw(rest, cleaned, seen)
                      ELSE normalise_loop_seen_raw(rest, Append(cleaned, cleaned_tag),
                                                   seen \cup {tag.s})

\* a variant that trims leading whitespace only
RECURSIVE normalise_loop_lstrip(_, _, _)
normalise_loop_lstrip(tags, cleaned, seen) ==
    IF tags = << >> THEN cleaned
    ELSE LET tag == Head(tags)
             rest == Tail(tags)
         IN  IF tag.k # "str" THEN normalise_loop_lstrip(rest, cleaned, seen)
             ELSE LET cleaned_tag == lstrip(tag.s)
                  IN  IF cleaned_tag = << >> \/ cleaned_tag \in seen
                      THEN normalise_loop_lstrip(rest, cleaned, seen)
                      ELSE normalise_loop_lstrip(rest, Append(cleaned, cleaned_tag),
                                                 seen \cup {cleaned_tag})

\* What `for tag in tags or []` iterates over; "TypeError" when the value is
\* truthy and not iterable.
IterItems(tags) ==
    CASE ~Truthy(tags)  -> [err |-> "", items |-> << >>]
      [] tags.k = "list" -> [err |-> "", items |-> tags.l]
      [] tags.k = "str"  -> [err |-> "",
                             items |-> [i \in 1..Len(tags.s) |-> Item("str", 0, << tags.s[i] >>)]]
      [] tags.k = "obj"  -> [err |-> "", items |-> << Item("str", 0, << "a" >>) >>]
      [] OTHER           -> [err |-> "TypeError", items |-> << >>]

normalise_tags_seen_raw(tags) ==
    LET it == IterItems(tags)
    IN  [err |-> it.err,
         tags |-> IF it.err = "" THEN normalise_loop_seen_raw(it.items, << >>, {}) ELSE << >>]

normalise_tags_lstrip(tags) ==
    LET it == IterItems(tags)
    IN  [err |-> it.err,
         tags |-> IF it.err = "" THEN normalise_loop_lstrip(it.items, << >>, {}) ELSE << >>]

normalise_tags(tags) ==
    LET it == IterItems(tags)
    IN  [err |-> it.err,
         tags |-> IF it.err = "" THEN normalise_loop(it.items, << >>, {}) ELSE << >>]

\* a List[str] result handed back as an argument
AsJList(strs) == JList([i \in 1..Len(strs) |-> Item("str", 0, strs[i])])

(***************************************************************************)
(* datetime                                                                *)
(***************************************************************************)
\* A datetime: wall-clock ordinal, whether it carries tzinfo, and its UTC offset.
Datetime(ord, aware, off) == [ord |-> ord, aware |-> aware, off |-> off]
NoDatetime == Datetime(0, FALSE, 0)
InRange(ord) == 1 <= ord /\ ord <= MaxOrd

Abs(n) == IF n < 0 THEN -n ELSE n

\* the instant a datetime denotes, by which datetimes compare (a naive one is
\* taken as UTC, as lines 98-99 take it)
Instant(dt) == dt.ord - (IF dt.aware THEN dt.off ELSE 0)

\* float(value) for the values line 82 lets through: err is the exception raised.
float(value) ==
    CASE value.k \in {"num", "bool"} -> [err |-> "", kind |-> "finite", x |-> value.n]
      [] value.k = "nan"             -> [err |-> "", kind |-> "nan", x |-> 0]
      [] value.k = "inf"             -> [err |-> "", kind |-> "inf", x |-> 0]
      [] OTHER                       -> [err |-> "", kind |-> "finite", x |-> DecimalValue(value.s)]

\* datetime.fromtimestamp(x, tz=timezone.utc): ValueError for NaN and for a year
\* outside datetime's range, OSError when gmtime() fails, OverflowError when
\* the value does not fit time_t.
fromtimestamp(f) ==
    CASE f.kind = "nan" -> [err |-> "ValueError", dt |-> NoDatetime]
      [] f.kind = "inf" -> [err |-> "OverflowError", dt |-> NoDatetime]
      [] OTHER ->
           IF Abs(f.x) > TimeTMax THEN [err |-> "OverflowError", dt |-> NoDatetime]
           ELSE IF Abs(f.x) > GmtimeMax THEN [err |-> "OSError", dt |-> NoDatetime]
           ELSE IF ~InRange(EpochOrd + f.x) THEN [err |-> "ValueError", dt |-> NoDatetime]
           ELSE [err |-> "", dt |-> Datetime(EpochOrd + f.x, TRUE, 0)]

\* datetime.fromisoformat(raw): a date digit, then nothing or a signed offset digit.
fromisoformat(raw) ==
    LET dateOk == Len(raw) >= 1 /\ IsDigitChar(raw[1]) /\ InRange(DigitVal(raw[1]))
    IN  IF dateOk /\ Len(raw) = 1
        THEN [err |-> "", dt |-> Datetime(DigitVal(raw[1]), FALSE, 0)]
        ELSE IF dateOk /\ Len(raw) = 3 /\ raw[2] \in {"+", "-"} /\ IsDigitChar(raw[3])
        THEN [err |-> "",
              dt |-> Datetime(DigitVal(raw[1]), TRUE,
                              IF raw[2] = "+" THEN DigitVal(raw[3]) ELSE -DigitVal(raw[3]))]
        ELSE [err |-> "ValueError", dt |-> NoDatetime]

\* dt.replace(tzinfo=timezone.utc)
replace_tzinfo_utc(dt) == Datetime(dt.ord, TRUE, 0)

\* dt.astimezone(timezone.utc) of an aware datetime: OverflowError when the
\* UTC wall clock leaves datetime's range.
astimezone_utc(dt) ==
    IF InRange(dt.ord - dt.off)
    THEN [err |-> "", dt |-> Datetime(dt.ord - dt.off, TRUE, 0)]
    ELSE [err |-> "OverflowError", dt |-> NoDatetime]

\* dt.isoformat()
isoformat(dt) ==
    << Digits[dt.ord + 1] >> \o
    (IF ~dt.aware THEN << >>
     ELSE IF dt.off >= 0 THEN << "+", Digits[dt.off + 1] >>
     ELSE << "-", Digits[(-dt.off) + 1] >>)

UtcSuffix == << "+", "0" >>      \* "+00:00"
ZSuffix == << "Z" >>

\* lines 82-86: the epoch attempt.  tried: the branch was entered.
EpochAttempt(value) ==
    IF value.k \in {"num", "bool", "nan", "inf"} \/ (value.k = "str" /\ isdigit(value.s))
    THEN LET r == fromtimestamp(float(value))
         IN  [tried |-> TRUE, err |-> r.err, dt |-> r.dt]
    ELSE [tried |-> FALSE, err |-> "", dt |-> NoDatetime]

\* lines 87-95: the date-time string attempt.
IsoAttempt(value) ==
    LET raw == strip(value.s)
        raw2 == IF endswith(raw, ZSuffix)
                THEN SubSeq(raw, 1, Len(raw) - 1) \o UtcSuffix ELSE raw
    IN  IF raw = << >> THEN [err |-> "ValueError", dt |-> NoDatetime]
        ELSE fromisoformat(raw2)

\* lines 98-101
ToUtc(dt) ==
    IF ~dt.aware THEN [err |-> "", dt |-> replace_tzinfo_utc(dt)] ELSE astimezone_utc(dt)

\* the outcome of parse_timestamp: raised is the uncaught exception, if any
TsOutcome(raised, dt) ==
    [raised |-> raised,
     iso |-> IF raised = "" THEN replace(isoformat(dt), UtcSuffix, ZSuffix) ELSE << >>,
     dt |-> dt]

parse_timestamp(value, default_dt, now_utc) ==
    LET def == IF default_dt.given THEN default_dt.dt ELSE now_utc
    IN  IF IsNone(value) THEN TsOutcome("", def)
        ELSE LET e == EpochAttempt(value)
             IN  IF e.tried /\ e.err = "OSError" THEN TsOutcome("OSError", NoDatetime)
                 ELSE LET dt1 == IF e.tried /\ e.err = "" THEN e.dt ELSE NoDatetime
                          got1 == e.tried /\ e.err = ""
                          i == IF ~got1 /\ value.k = "str" THEN IsoAttempt(value)
                               ELSE [err |-> "ValueError", dt |-> NoDatetime]
                          got2 == ~got1 /\ value.k = "str" /\ i.err = ""
                          dt2 == IF got1 THEN dt1 ELSE IF got2 THEN i.dt ELSE def
                          u == ToUtc(dt2)
                     IN  IF u.err # "" THEN TsOutcome(u.err, NoDatetime)
                         ELSE TsOutcome("", u.dt)

(***************************************************************************)
(* The object heap.  A Python dict or list that the code may either share  *)
(* or copy is an object with an address (its index in heap).  A dict       *)
(* object maps keys to field values: a scalar, or the address of a list    *)
(* object.  The dict and list literals that build_linkwarden_payload       *)
(* creates for collections, links and tags (lines 224-265) are new in      *)
(* every call and are kept as values inside the collections list object.   *)
(***************************************************************************)
Scalar(str) == [k |-> "val", a |-> 0, s |-> str]
Ref(addr) == [k |-> "ref", a |-> addr, s |-> ""]
DictObj(fields) == [kind |-> "dict", f |-> fields, items |-> << >>]
ListObj(items) == [kind |-> "list", f |-> << >>, items |-> items]

\* the keys of the base payload whose values are lists, in insertion order
ListKeys == << "collectionOrder", "aiPredefinedTags", "collections",
               "pinnedLinks", "whitelistedUsers" >>

\* the list-valued keys a dict object holds, in ListKeys order
RECURSIVE RefKeysFrom(_, _)
RefKeysFrom(d, i) ==
    IF i > Len(ListKeys) THEN << >>
    ELSE IF ListKeys[i] \in DOMAIN d.f /\ d.f[ListKeys[i]].k = "ref"
         THEN << ListKeys[i] >> \o RefKeysFrom(d, i + 1)
         ELSE RefKeysFrom(d, i + 1)
RefKeys(d) == RefKeysFrom(d, 1)

IndexOf(seq, x) == CHOOSE i \in 1..Len(seq) : seq[i] = x

\* copy.copy(obj): a new dict object whose fields refer to the same lists
copy_shallow(h, addr) ==
    [heap |-> Append(h, h[addr]), addr |-> Len(h) + 1]

\* copy.deepcopy(obj): a new dict object and a new list object for every list
deepcopy(h, addr) ==
    LET d == h[addr]
        keys == RefKeys(d)
        new == Len(h) + 1
        fields == [k \in DOMAIN d.f |->
                     IF d.f[k].k = "ref" THEN Ref(new + IndexOf(keys, k)) ELSE d.f[k]]
        lists == [i \in 1..Len(keys) |-> ListObj(h[d.f[keys[i]].a].items)]
    IN  [heap |-> (h \o << DictObj(fields) >>) \o lists, addr |-> new]

\* payload[key] = <a new list>
set_new_list(h, addr, key, items) ==
    LET new == Len(h) + 1
        d == h[addr]
        fields == [k \in (DOMAIN d.f) \cup {key} |-> IF k = key THEN Ref(new) ELSE d.f[k]]
    IN  Once(items, LAMBDA list : Append([h EXCEPT ![addr] = DictObj(fields)], ListObj(list)))

\* payload.setdefault(key, [])
setdefault_list(h, addr, key) ==
    IF key \in DOMAIN h[addr].f THEN h ELSE set_new_list(h, addr, key, << >>)

\* the addresses a dict object reaches: itself and its lists
Reach(h, addr) == {addr} \cup {h[addr].f[k].a : k \in {x \in DOMAIN h[addr].f : h[addr].f[x].k = "ref"}}

\* the document an address denotes, lists read through (what json.dump writes)
DocValue(h, addr) ==
    [k \in DOMAIN h[addr].f |->
        IF h[addr].f[k].k = "ref"
        THEN [list |-> TRUE, s |-> "", items |-> h[h[addr].f[k].a].items]
        ELSE [list |-> FALSE, s |-> h[addr].f[k].s, items |-> << >>]]

(***************************************************************************)
(* build_linkwarden_payload                                                *)
(***************************************************************************)
LinkRecord(title, url, description, tags, created_dt) ==
    [title |-> title, url |-> url, description |-> description,
     tags |-> tags, created_dt |-> created_dt]
Group(name, records) == [name |-> name, records |-> records]

IsoZ(dt) == replace(isoformat(dt), UtcSuffix, ZSuffix)

\* min(record.created_dt for record in link_records)
RECURSIVE earliest(_)
earliest(records) ==
    IF Len(records) = 1 THEN records[1].created_dt
    ELSE LET m == earliest(Tail(records))
         IN  IF Instant(m) < Instant(records[1].created_dt) THEN m ELSE records[1].created_dt

link_payload(record, link_id, collection_id, user_id) ==
    LET created_iso == IsoZ(record.created_dt)
    IN  [id |-> link_id, name |-> record.title, type |-> "url",
         description |-> record.description, createdById |-> user_id,
         collectionId |-> collection_id, icon |-> "None", iconWeight |-> "None",
         color |-> "None", url |-> record.url, clientSide |-> FALSE, aiTagged |-> FALSE,
         indexVersion |-> "None", lastPreserved |-> "None",
         importDate |-> created_iso, createdAt |-> created_iso, updatedAt |-> created_iso,
         tags |-> [i \in 1..Len(record.tags) |-> [name |-> record.tags[i]]]]

\* lines 225-248: the loop over one group's records
RECURSIVE build_links(_, _, _, _, _)
build_links(link_records, links_payload, link_id, collection_id, user_id) ==
    IF link_records = << >> THEN [links |-> links_payload, link_id |-> link_id]
    ELSE build_links(Tail(link_records),
                     Append(links_payload,
                            link_payload(Head(link_records), link_id, collection_id, user_id)),
                     link_id + 1, collection_id, user_id)

collection_payload(name, links, collection_id, user_id, collection_color, created_iso) ==
    [id |-> collection_id, name |-> name, description |-> "", icon |-> "None",
     iconWeight |-> "None", color |-> collection_color, parentId |-> "None",
     isPublic |-> FALSE, ownerId |-> user_id, createdById |-> user_id,
     createdAt |-> created_iso, updatedAt |-> created_iso,
     rssSubscriptions |-> << >>, links |-> links]

\* lines 217-267: the loop over the groups
RECURSIVE build_collections(_, _, _, _, _, _)
build_collections(groups, collections, link_id, collection_id, user_id, collection_color) ==
    IF groups = << >> THEN collections
    ELSE LET g == Head(groups)
         IN  IF g.records = << >>
             THEN build_collections(Tail(groups), collections, link_id, collection_id,
                                    user_id, collection_color)
             ELSE Once(build_links(g.records, << >>, link_id, collection_id, user_id),
                       LAMBDA built :
                         build_collections(
                             Tail(groups),
                             Append(collections,
                                    collection_payload(g.name, built.links, collection_id,
                                                       user_id, collection_color,
                                                       IsoZ(earliest(g.records)))),
                             built.link_id, collection_id + 1, user_id, collection_color))

\* a variant that restarts link_id in every group and counts skipped groups
RECURSIVE build_collections_reset(_, _, _, _, _, _)
build_collections_reset(groups, collections, link_id, collection_id, user_id, collection_color) ==
    IF groups = << >> THEN collections
    ELSE LET g == Head(groups)
         IN  IF g.records = << >>
             THEN build_collections_reset(Tail(groups), collections, link_id,
                                          collection_id + 1, user_id, collection_color)
             ELSE Once(build_links(g.records, << >>, 1, collection_id, user_id),
                       LAMBDA built :
                         build_collections_reset(
                             Tail(groups),
                             Append(collections,
                                    collection_payload(g.name, built.links, collection_id,
                                                       user_id, collection_color,
                                                       IsoZ(earliest(g.records)))),
                             built.link_id, collection_id + 1, user_id, collection_color))

\* lines 269-272, given the copy to fill
finish_payload(copied, collections) ==
    Once(copied, LAMBDA payload :
      Once(set_new_list(payload.heap, payload.addr, "collections", collections), LAMBDA h1 :
        Once(setdefault_list(h1, payload.addr, "pinnedLinks"), LAMBDA h2 :
          [heap |-> setdefault_list(h2, payload.addr, "whitelistedUsers"),
           addr |-> payload.addr])))

\* a variant that copies the skeleton's top level only
build_linkwarden_payload_shallow(h, grouped, user_id, collection_color, base) ==
    finish_payload(copy_shallow(h, base),
                   build_collections(grouped, << >>, 1, 1, user_id, collection_color))

\* a variant with the bug of build_collections_reset
build_linkwarden_payload_reset(h, grouped, user_id, collection_color, base) ==
    finish_payload(deepcopy(h, base),
                   build_collections_reset(grouped, << >>, 1, 1, user_id, collection_color))

build_linkwarden_payload(h, grouped, user_id, collection_color, base) ==
    finish_payload(deepcopy(h, base),
                   build_collections(grouped, << >>, 1, 1, user_id, collection_color))

(***************************************************************************)
(* load_base_payload, and dict objects built the same way.                 *)
(***************************************************************************)
\* a new dict object with the given scalar fields and a new list per key of lists
new_dict(h, scalars, lists) ==
    LET proto == DictObj([k \in DOMAIN lists |-> Ref(0)])
        keys == RefKeys(proto)
        new == Len(h) + 1
        fields == [k \in (DOMAIN scalars) \cup (DOMAIN lists) |->
                     IF k \in DOMAIN lists THEN Ref(new + IndexOf(keys, k)) ELSE scalars[k]]
    IN  [heap |-> (h \o << DictObj(fields) >>) \o [i \in 1..Len(keys) |-> ListObj(lists[keys[i]])],
         addr |-> new]

BaseScalars(now_iso) ==
    [name |-> Scalar(""), username |-> Scalar(""), email |-> Scalar("None"),
     emailVerified |-> Scalar("None"), unverifiedNewEmail |-> Scalar("None"),
     image |-> Scalar("None"), locale |-> Scalar("en"),
     parentSubscriptionId |-> Scalar("None"), linksRouteTo |-> Scalar("ORIGINAL"),
     aiTaggingMethod |-> Scalar("DISABLED"), aiTagExistingLinks |-> Scalar("False"),
     theme |-> Scalar("dark"), readableFontFamily |-> Scalar("sans-serif"),
     readableFontSize |-> Scalar("18px"), readableLineHeight |-> Scalar("1.6"),
     readableLineWidth |-> Scalar("normal"), preventDuplicateLinks |-> Scalar("False"),
     archiveAsScreenshot |-> Scalar("True"), archiveAsMonolith |-> Scalar("True"),
     archiveAsPDF |-> Scalar("True"), archiveAsReadable |-> Scalar("True"),
     archiveAsWaybackMachine |-> Scalar("False"), isPrivate |-> Scalar("False"),
     referredBy |-> Scalar("None"), lastPickedAt |-> Scalar(now_iso),
     acceptPromotionalEmails |-> Scalar("False"), trialEndEmailSent |-> Scalar("False"),
     createdAt |-> Scalar(now_iso), updatedAt |-> Scalar(now_iso)]

load_base_payload(h, now_utc) ==
    new_dict(h, BaseScalars(IsoZ(now_utc)),
             [k \in {ListKeys[i] : i \in 1..Len(ListKeys)} |-> << >>])

DEFAULT_COLLECTION_NAME == "Hoarder Import"
DefaultArgs == [user_id |-> 1, collection_color |-> "None"]
NoFile == [state |-> "none", data |-> << >>]
NoDocument == << >>
NoOutput == [exists |-> FALSE, doc |-> << >>]

(***************************************************************************)
(* collect_links                                                           *)
(***************************************************************************)
\* what dict.get(key) found: a string, or nothing
Opt(str) == [present |-> TRUE, s |-> str]
Missing == [present |-> FALSE, s |-> ""]

\* A bookmark entry.  content: "absent", "null" or "obj"; type: the content's
\* type ("" when it has none); url: the content's url.
Entry(content, type, url, title, note, tags, createdAt) ==
    [content |-> content, type |-> type, url |-> url, title |-> title, note |-> note,
     tags |-> tags, createdAt |-> createdAt]

\* The parsed document.  root: "obj" or "list".
Document(root, has_bookmarks, islist, entries) ==
    [root |-> root, has_bookmarks |-> has_bookmarks, islist |-> islist, entries |-> entries]

Reverse(seq) == [i \in 1..Len(seq) |-> seq[Len(seq) + 1 - i]]

\* grouped.setdefault(name, []); grouped[name].append(record)
group_append(grouped, name, record) ==
    IF \E i \in 1..Len(grouped) : grouped[i].name = name
    THEN [i \in 1..Len(grouped) |->
            IF grouped[i].name = name
            THEN Group(name, Append(grouped[i].records, record)) ELSE grouped[i]]
    ELSE Append(grouped, Group(name, << record >>))

\* lines 136-141: whether the entry is skipped
Skipped(entry) ==
    LET has_content == entry.content = "obj"
        type == IF has_content THEN entry.type ELSE ""
        url == IF has_content THEN entry.url ELSE Missing
    IN  type # "link" \/ ~url.present \/ url.s = ""

\* lines 143-159: the record of an entry that is not skipped
RecordOf(entry, now_utc) ==
    LET url == entry.url.s
        title == IF entry.title.present /\ entry.title.s # "" THEN entry.title.s ELSE url
        description == IF entry.note.present THEN entry.note.s ELSE ""
        tags == normalise_tags(IF Truthy(entry.tags) THEN entry.tags ELSE JList(<< >>))
        ts == IF tags.err = "" THEN parse_timestamp(entry.createdAt, [given |-> TRUE, dt |-> now_utc], now_utc)
              ELSE TsOutcome(tags.err, NoDatetime)
    IN  [raised |-> ts.raised,
         record |-> LinkRecord(title, url, description, tags.tags, ts.dt)]

\* lines 135-159: the loop, over the entries in the order given
RECURSIVE collect_loop(_, _, _)
collect_loop(entries, grouped, now_utc) ==
    IF entries = << >> THEN [exit |-> "", raised |-> "", grouped |-> grouped]
    ELSE IF Skipped(Head(entries))
    THEN collect_loop(Tail(entries), grouped, now_utc)
    ELSE LET r == RecordOf(Head(entries), now_utc)
         IN  IF r.raised # "" THEN [exit |-> "", raised |-> r.raised, grouped |-> << >>]
             ELSE collect_loop(Tail(entries),
                               group_append(grouped, DEFAULT_COLLECTION_NAME, r.record),
                               now_utc)

NoBookmarksKey == "The Hoarder export does not contain a 'bookmarks' key."
BookmarksNotList == "'bookmarks' should be a list in the Hoarder export."

\* lines 125-130
CheckBookmarks(hoarder) ==
    IF hoarder.root # "obj" THEN [exit |-> "", raised |-> "TypeError", grouped |-> << >>]
    ELSE IF ~hoarder.has_bookmarks THEN [exit |-> NoBookmarksKey, raised |-> "", grouped |-> << >>]
    ELSE IF ~hoarder.islist THEN [exit |-> BookmarksNotList, raised |-> "", grouped |-> << >>]
    ELSE [exit |-> "", raised |-> "", grouped |-> << >>]

collect_links(hoarder, now_utc) ==
    LET c == CheckBookmarks(hoarder)
    IN  IF c.exit # "" \/ c.raised # "" THEN c
        ELSE collect_loop(Reverse(hoarder.entries), << >>, now_utc)

(***************************************************************************)
(* Values the other specifications leave alone.                            *)
(***************************************************************************)
Pending == "pending"
PendingTags == [err |-> Pending, tags |-> << >>]
PendingTs == [raised |-> Pending, iso |-> << >>, dt |-> NoDatetime]
NoDefault == [given |-> FALSE, dt |-> NoDatetime]
UtcAt(ord) == Datetime(ord, TRUE, 0)

IdleTags == tags_in = JAbsent /\ tags_out = PendingTags /\ tags_twice = PendingTags
IdleTime == ts_value = JAbsent /\ ts_default = NoDefault /\ ts_result = PendingTs
IdleRun ==
    /\ pc = "idle" /\ args = DefaultArgs /\ in_file = NoFile /\ hoarder_data = NoDocument
    /\ grouped_links = << >>
    /\ heap = << >> /\ base_payload = 0 /\ payloads = << >> /\ base0 = << >>
    /\ out_file = NoOutput /\ exit_status = 0 /\ stderr = "" /\ stdout = << >>

(***************************************************************************)
(* SpecTags: normalise_tags applied to every bounded tag list, and then to *)
(* its own result.                                                         *)
(***************************************************************************)
TagChars == {" ", "a"}
TagStrings == UNION {[1..n -> TagChars] : n \in 0..MaxTagLen}
TagItems == {Item("str", 0, s) : s \in TagStrings} \cup {Item("num", 7, NoChars)}

InitTags ==
    /\ \E n \in 0..MaxTags : \E l \in [1..n -> TagItems] : tags_in = JList(l)
    /\ tags_out = PendingTags /\ tags_twice = PendingTags
    /\ IdleTime /\ IdleRun /\ now_dt = UtcAt(EpochOrd)

NormaliseTags ==
    /\ tags_out.err = Pending
    /\ tags_out' = normalise_tags(tags_in)
    /\ UNCHANGED << tags_in, tags_twice, timeVars, runVars >>

NormaliseAgain ==
    /\ tags_out.err = "" /\ tags_twice.err = Pending
    /\ tags_twice' = normalise_tags(AsJList(tags_out.tags))
    /\ UNCHANGED << tags_in, tags_out, timeVars, runVars >>

NextTags == NormaliseTags \/ NormaliseAgain
SpecTags == InitTags /\ [][NextTags]_vars

(***************************************************************************)
(* SpecTime: parse_timestamp applied to every bounded value and default.   *)
(***************************************************************************)
TsChars == {"0", "1", "5", "9", "Z", "+", "-", " "}
TsStrings == UNION {[1..n -> TsChars] : n \in 0..MaxTsLen}
TsValues ==
    {JAbsent, JNull, JNaN, JInf, JBool(TRUE), JBool(FALSE), JObj, JList(<< >>)}
    \cup {JNum(n) : n \in (-NumMax)..NumMax}
    \cup {JStr(str) : str \in TsStrings}
TsZones == {<< FALSE, 0 >>, << TRUE, -1 >>, << TRUE, 0 >>, << TRUE, 1 >>}
TsDefaults ==
    {NoDefault} \cup
    {[given |-> TRUE, dt |-> Datetime(o, z[1], z[2])] : o \in 1..MaxOrd, z \in TsZones}

InitTime ==
    /\ ts_value \in TsValues
    /\ ts_default \in TsDefaults
    /\ ts_result = PendingTs
    /\ now_dt \in {UtcAt(o) : o \in 1..MaxOrd}
    /\ (ts_default.given => now_dt = UtcAt(EpochOrd))
    /\ IdleTags /\ IdleRun

ParseTimestamp ==
    /\ ts_result.raised = Pending
    /\ ts_result' = parse_timestamp(ts_value, ts_default, now_dt)
    /\ UNCHANGED << ts_value, ts_default, tagVars, runVars >>

NextTime == ParseTimestamp
SpecTime == InitTime /\ [][NextTime]_vars

(***************************************************************************)
(* SpecBuild: build_linkwarden_payload called on every bounded grouping.   *)
(* SpecReuse: the same skeleton object given to several calls, the caller  *)
(* changing the documents it got back.                                     *)
(***************************************************************************)
RecordSet ==
    { LinkRecord("A", "https://a", "", << << "a" >> >>, UtcAt(2)),
      LinkRecord("https://b", "https://b", "n", << >>, UtcAt(1)) }
\* the record lists of a group: the two records alternate, either one first
RecordLists ==
    {[i \in 1..n |-> IF i % 2 = 1 THEN first ELSE CHOOSE r \in RecordSet : r # first] :
        n \in 0..MaxRecords, first \in RecordSet}
GroupNames == << DEFAULT_COLLECTION_NAME, "Reading", "Work", "Later", "Misc", "Old" >>
\* the grouping whose i-th group holds the records rl[i]
Grouping(rl) == [i \in 1..Len(rl) |-> Group(GroupNames[i], rl[i])]

ListContents == {<< >>, << Scalar("x") >>}
Skeletons ==
    {new_dict(<< >>, [name |-> Scalar(""), locale |-> Scalar("en")], [k \in ks |-> items]) :
        ks \in {{"collectionOrder", "aiPredefinedTags", "collections"} \cup opt :
                  opt \in SUBSET {"pinnedLinks", "whitelistedUsers"}},
        items \in ListContents}

Returned(h, addr) == [addr |-> addr, returned |-> DocValue(h, addr), touched |-> 0]

RECURSIVE Mutations(_)
Mutations(docs) == IF docs = << >> THEN 0 ELSE Head(docs).touched + Mutations(Tail(docs))

InitLib(skeletons) ==
    /\ pc = "lib" /\ args = DefaultArgs /\ in_file = NoFile /\ hoarder_data = NoDocument
    /\ now_dt = UtcAt(EpochOrd)
    /\ \E sk \in skeletons :
         heap = sk.heap /\ base_payload = sk.addr /\ base0 = DocValue(sk.heap, sk.addr)
    /\ payloads = << >>
    /\ out_file = NoOutput /\ exit_status = 0 /\ stderr = "" /\ stdout = << >>
    /\ IdleTags /\ IdleTime

InitBuild ==
    /\ \E n \in 0..MaxGroups : \E rl \in [1..n -> RecordLists] : grouped_links = Grouping(rl)
    /\ InitLib({load_base_payload(<< >>, UtcAt(EpochOrd))})

InitReuse ==
    /\ grouped_links \in {<< >>} \cup {Grouping(<< rs >>) : rs \in {<< >>} \cup {<< r >> : r \in RecordSet}}
    /\ InitLib(Skeletons)

\* payload = build_linkwarden_payload(grouped_links, ..., base_payload=base_payload)
CallBuild ==
    /\ pc = "lib"
    /\ Len(payloads) < MaxCalls
    /\ \E r \in {build_linkwarden_payload(heap, grouped_links, args.user_id,
                                           args.collection_color, base_payload)} :
         /\ heap' = r.heap
         /\ payloads' = Append(payloads, Returned(r.heap, r.addr))
    /\ UNCHANGED << pc, args, in_file, hoarder_data, grouped_links, now_dt, base_payload,
                    base0, out_file, exit_status, stderr, stdout, tagVars, timeVars >>

\* the caller runs  payload["name"] = "changed"  on a document it got back
MutateKey ==
    /\ pc = "lib"
    /\ Mutations(payloads) < MaxMutations
    /\ \E i \in 1..Len(payloads) :
         /\ heap[payloads[i].addr].f["name"] # Scalar("changed")
         /\ heap' = [heap EXCEPT ![payloads[i].addr].f["name"] = Scalar("changed")]
         /\ payloads' = [payloads EXCEPT ![i].touched = @ + 1]
    /\ UNCHANGED << pc, args, in_file, hoarder_data, grouped_links, now_dt, base_payload,
                    base0, out_file, exit_status, stderr, stdout, tagVars, timeVars >>

AppendedItem(key) ==
    IF key = "collections"
    THEN collection_payload("x", << >>, 0, 0, "None", << >>)
    ELSE Scalar("x")

\* the caller runs  payload[key].append(item)  on a document it got back
MutateList ==
    /\ pc = "lib"
    /\ Mutations(payloads) < MaxMutations
    /\ \E i \in 1..Len(payloads) :
       \E key \in {k \in DOMAIN heap[payloads[i].addr].f : heap[payloads[i].addr].f[k].k = "ref"} :
         LET a == heap[payloads[i].addr].f[key].a
         IN  /\ heap' = [heap EXCEPT ![a].items = Append(@, AppendedItem(key))]
             /\ payloads' = [payloads EXCEPT ![i].touched = @ + 1]
    /\ UNCHANGED << pc, args, in_file, hoarder_data, grouped_links, now_dt, base_payload,
                    base0, out_file, exit_status, stderr, stdout, tagVars, timeVars >>

NextBuild == CallBuild
SpecBuild == InitBuild /\ [][NextBuild]_vars

NextReuse == CallBuild \/ MutateKey \/ MutateList
SpecReuse == InitReuse /\ [][NextReuse]_vars

(***************************************************************************)
(* Claims about build_linkwarden_payload (SpecBuild, SpecReuse).           *)
(***************************************************************************)
OneTo(n) == [i \in 1..n |-> i]

\* the ids of the collections of a document, in emission order
CollectionIds(doc) == [i \in 1..Len(doc["collections"].items) |-> doc["collections"].items[i].id]

\* the ids of the links of a sequence of collections, in emission order
RECURSIVE LinkIdsOf(_)
LinkIdsOf(collections) ==
    IF collections = << >> THEN << >>
    ELSE [i \in 1..Len(Head(collections).links) |-> Head(collections).links[i].id]
         \o LinkIdsOf(Tail(collections))
LinkIds(doc) == LinkIdsOf(doc["collections"].items)

RECURSIVE TotalRecords(_)
TotalRecords(groups) ==
    IF groups = << >> THEN 0 ELSE Len(Head(groups).records) + TotalRecords(Tail(groups))
NonEmptyGroups(groups) == Cardinality({i \in 1..Len(groups) : groups[i].records # << >>})

\* C2: in every returned document the link ids, across all collections in
\* emission order, are 1, 2, 3, ... and the collection ids are 1, 2, 3, ...,
\* whatever groups are empty and skipped.
C2_IdsSequential ==
    \A i \in 1..Len(payloads) :
        /\ LinkIds(payloads[i].returned) = OneTo(TotalRecords(grouped_links))
        /\ CollectionIds(payloads[i].returned) = OneTo(NonEmptyGroups(grouped_links))

\* a document was built from a grouping whose empty group precedes a later
\* non-empty one, with two collections and a collection of two links
C2_Witness ==
    /\ Len(payloads) >= 1
    /\ Len(grouped_links) = 3
    /\ Len(grouped_links[1].records) = 2
    /\ grouped_links[2].records = << >>
    /\ Len(grouped_links[3].records) = 1
    /\ LinkIds(payloads[1].returned) = << 1, 2, 3 >>
    /\ CollectionIds(payloads[1].returned) = << 1, 2 >>

\* C8: the skeleton is as it was first given, no returned document shares an
\* object with the skeleton or with another returned document, and a document
\* the caller has not changed is as it was returned.
C8_SkeletonNeverShared ==
    /\ DocValue(heap, base_payload) = base0
    /\ \A i \in 1..Len(payloads) :
         /\ Reach(heap, payloads[i].addr) \cap Reach(heap, base_payload) = {}
         /\ payloads[i].touched = 0 =>
              DocValue(heap, payloads[i].addr) = payloads[i].returned
         /\ \A j \in 1..Len(payloads) :
              i # j => Reach(heap, payloads[i].addr) \cap Reach(heap, payloads[j].addr) = {}

\* two documents came from one skeleton that has a non-empty pinnedLinks, and
\* the caller has appended to the first document's pinnedLinks
C8_Witness ==
    /\ Len(payloads) = 2
    /\ "pinnedLinks" \in DOMAIN base0
    /\ Len(base0["pinnedLinks"].items) = 1
    /\ payloads[1].touched > 0 /\ payloads[2].touched = 0
    /\ Len(DocValue(heap, payloads[1].addr)["pinnedLinks"].items) = 2
    /\ Len(DocValue(heap, payloads[2].addr)["pinnedLinks"].items) = 1

(***************************************************************************)
(* Spec: one run of main() on every bounded input file.                    *)
(***************************************************************************)
CreatedAtInputs ==
    {JAbsent, JNum(1), JStr(<< "1", "+", "1" >>), JStr(<< "5", "Z" >>)}
TagsInputs ==
    {JAbsent,
     JList(<< Item("str", 0, << " ", "a" >>), Item("num", 7, NoChars),
              Item("str", 0, << "a" >>), Item("str", 0, << " " >>) >>),
     JNum(5)}

UsableEntries ==
    {Entry("obj", "link", Opt("https://a"), Opt("A"), Opt("n"), t, c) :
        t \in TagsInputs, c \in CreatedAtInputs}
    \cup {Entry("obj", "link", Opt("https://b"), Missing, Missing, t, c) :
        t \in TagsInputs, c \in CreatedAtInputs}
UnusableEntries ==
    {Entry("absent", "", Missing, Opt("T"), Missing, JAbsent, JAbsent),
     Entry("null", "", Missing, Opt("T"), Missing, JAbsent, JAbsent),
     Entry("obj", "", Opt("https://n"), Opt("T"), Missing, JAbsent, JAbsent),
     Entry("obj", "text", Opt("https://n"), Opt("T"), Missing, JAbsent, JAbsent),
     Entry("obj", "text", Opt("https://n"), Opt("T"), Missing, JNum(5), JStr(<< "1", "+", "1" >>)),
     Entry("obj", "link", Missing, Opt("T"), Missing, JAbsent, JAbsent),
     Entry("obj", "link", Opt(""), Opt("T"), Missing, JAbsent, JAbsent),
     Entry("obj", "link", Opt(""), Opt("T"), Missing, JNum(5), JStr(<< "1", "+", "1" >>))}
EntrySet == UsableEntries \cup UnusableEntries

\* documents that are not an object holding a list under "bookmarks"
Malformed ==
    {Document("list", FALSE, FALSE, << >>),
     Document("obj", FALSE, FALSE, << >>),
     Document("obj", TRUE, FALSE, << >>)}

Init ==
    /\ pc = "start"
    /\ args \in {DefaultArgs, [user_id |-> 2, collection_color |-> "#0ea5e9"]}
    /\ \/ in_file \in {[state |-> "missing", data |-> << >>], [state |-> "invalid", data |-> << >>]}
       \/ \E d \in Malformed : in_file = [state |-> "ok", data |-> d]
       \/ \E n \in 0..MaxEntries : \E es \in [1..n -> EntrySet] :
            in_file = [state |-> "ok", data |-> Document("obj", TRUE, TRUE, es)]
    /\ hoarder_data = NoDocument
    /\ grouped_links = << >>
    /\ now_dt = UtcAt(EpochOrd + 1)
    /\ heap = << >> /\ base_payload = 0 /\ payloads = << >> /\ base0 = << >>
    /\ out_file = NoOutput /\ exit_status = 0 /\ stderr = "" /\ stdout = << >>
    /\ IdleTags /\ IdleTime

\* sys.exit(message)
Exit(message) ==
    /\ pc' = "exited" /\ exit_status' = 1 /\ stderr' = message

\* an exception nothing catches: the interpreter prints the traceback
Crash(exception) ==
    /\ pc' = "crashed" /\ exit_status' = 1 /\ stderr' = exception

\* line 278 and load_json
LoadJson ==
    /\ pc = "start"
    /\ CASE in_file.state = "missing" ->
              Exit("Input file not found") /\ UNCHANGED hoarder_data
         [] in_file.state = "invalid" ->
              Exit("Invalid JSON") /\ UNCHANGED hoarder_data
         [] OTHER ->
              /\ hoarder_data' = in_file.data
              /\ pc' = "loaded"
              /\ UNCHANGED << exit_status, stderr >>
    /\ UNCHANGED << args, in_file, grouped_links, now_dt, heap, base_payload, payloads,
                    base0, out_file, stdout, tagVars, timeVars >>

\* line 279
CollectLinks ==
    /\ pc = "loaded"
    /\ \E r \in {collect_links(hoarder_data, now_dt)} :
         CASE r.raised # "" -> Crash(r.raised) /\ UNCHANGED grouped_links
           [] r.exit # ""   -> Exit(r.exit) /\ UNCHANGED grouped_links
           [] OTHER         -> /\ grouped_links' = r.grouped
                               /\ pc' = "collected"
                               /\ UNCHANGED << exit_status, stderr >>
    /\ UNCHANGED << args, in_file, hoarder_data, now_dt, heap, base_payload, payloads,
                    base0, out_file, stdout, tagVars, timeVars >>

NoLinksFound == "No link-type bookmarks were found in the Hoarder export."

\* a variant of lines 281-282 that goes on with an empty grouping
CheckLinksNoExit ==
    /\ pc = "collected"
    /\ pc' = "checked"
    /\ UNCHANGED << exit_status, stderr >>
    /\ UNCHANGED << args, in_file, hoarder_data, grouped_links, now_dt, heap, base_payload,
                    payloads, base0, out_file, stdout, tagVars, timeVars >>

\* lines 281-282
CheckLinks ==
    /\ pc = "collected"
    /\ IF grouped_links = << >>
       THEN Exit(NoLinksFound)
       ELSE pc' = "checked" /\ UNCHANGED << exit_status, stderr >>
    /\ UNCHANGED << args, in_file, hoarder_data, grouped_links, now_dt, heap, base_payload,
                    payloads, base0, out_file, stdout, tagVars, timeVars >>

\* line 284
LoadBasePayload ==
    /\ pc = "checked"
    /\ \E b \in {load_base_payload(heap, now_dt)} :
         /\ heap' = b.heap
         /\ base_payload' = b.addr
         /\ base0' = DocValue(b.heap, b.addr)
    /\ pc' = "based"
    /\ UNCHANGED << args, in_file, hoarder_data, grouped_links, now_dt, payloads,
                    out_file, exit_status, stderr, stdout, tagVars, timeVars >>

\* lines 286-291
BuildPayload ==
    /\ pc = "based"
    /\ \E r \in {build_linkwarden_payload(heap, grouped_links, args.user_id,
                                           args.collection_color, base_payload)} :
         /\ heap' = r.heap
         /\ payloads' = << Returned(r.heap, r.addr) >>
    /\ pc' = "built"
    /\ UNCHANGED << args, in_file, hoarder_data, grouped_links, now_dt, base_payload,
                    base0, out_file, exit_status, stderr, stdout, tagVars, timeVars >>

\* lines 293-295
WriteOutput ==
    /\ pc = "built"
    /\ out_file' = [exists |-> TRUE, doc |-> DocValue(heap, payloads[1].addr)]
    /\ pc' = "written"
    /\ UNCHANGED << args, in_file, hoarder_data, grouped_links, now_dt, heap, base_payload,
                    payloads, base0, exit_status, stderr, stdout, tagVars, timeVars >>

\* lines 297-301
PrintSummary ==
    /\ pc = "written"
    /\ stdout' = << TotalRecords(grouped_links),
                    Len(DocValue(heap, payloads[1].addr)["collections"].items) >>
    /\ pc' = "done"
    /\ UNCHANGED << args, in_file, hoarder_data, grouped_links, now_dt, heap, base_payload,
                    payloads, base0, out_file, exit_status, stderr, tagVars, timeVars >>

Next ==
    \/ LoadJson \/ CollectLinks \/ CheckLinks \/ LoadBasePayload
    \/ BuildPayload \/ WriteOutput \/ PrintSummary
Spec == Init /\ [][Next]_vars

(***************************************************************************)
(* Claims about the run (Spec).                                            *)
(***************************************************************************)
\* the bookmarks list of the input file, when it has one
ListShaped ==
    /\ in_file.state = "ok" /\ in_file.data.root = "obj"
    /\ in_file.data.has_bookmarks /\ in_file.data.islist
Bookmarks == IF ListShaped THEN in_file.data.entries ELSE << >>

\* the entry has content of type "link" with a url that is present and not empty
IsUsable(e) == e.content = "obj" /\ e.type = "link" /\ e.url.present /\ e.url.s # ""

RECURSIVE UsableOf(_)
UsableOf(entries) ==
    IF entries = << >> THEN << >>
    ELSE (IF IsUsable(Head(entries)) THEN << Head(entries) >> ELSE << >>)
         \o UsableOf(Tail(entries))

Collected == pc \in {"collected", "checked", "based", "built", "written", "done"}
Built == pc \in {"built", "written", "done"}

RECURSIVE AllRecords(_)
AllRecords(groups) ==
    IF groups = << >> THEN << >> ELSE Head(groups).records \o AllRecords(Tail(groups))

\* C1: once collect_links has run on a list-shaped bookmarks collection, the
\* grouping holds exactly one record per usable entry and none for any other
\* entry.
C1_OneRecordPerUsableEntry ==
    (ListShaped /\ pc \notin {"start", "loaded"}) =>
        LET usable == UsableOf(Bookmarks)
            records == AllRecords(grouped_links)
        IN  /\ Len(records) = Len(usable)
            /\ \A i \in 1..Len(records) : \E j \in 1..Len(usable) : records[i].url = usable[j].url.s
            /\ \A j \in 1..Len(usable) : \E i \in 1..Len(records) : records[i].url = usable[j].url.s

FatalCondition ==
    \/ in_file.state \in {"missing", "invalid"}
    \/ /\ in_file.state = "ok" /\ in_file.data.root = "obj"
       /\ \/ ~in_file.data.has_bookmarks
          \/ ~in_file.data.islist
          \/ UsableOf(in_file.data.entries) = << >>

\* C3: a run under a fatal condition never gets past its check and ends with
\* a non-zero status, a message and no output file; an output file that exists
\* holds the complete document of a run that passed every check.
C3_FatalBeforeOutput ==
    /\ FatalCondition =>
         /\ pc \in {"start", "loaded", "collected", "exited"}
         /\ ~out_file.exists
         /\ pc = "exited" => exit_status # 0 /\ stderr # ""
    /\ out_file.exists =>
         /\ ~FatalCondition
         /\ ListShaped
         /\ pc \in {"written", "done"}
         /\ out_file.doc = DocValue(heap, payloads[1].addr)
         /\ Len(LinkIds(out_file.doc)) = Len(UsableOf(Bookmarks))
         /\ Len(LinkIds(out_file.doc)) > 0

\* a run whose bookmarks list holds entries, none usable, has exited
C3_Witness ==
    /\ pc = "exited"
    /\ ListShaped
    /\ Len(Bookmarks) >= 1
    /\ stderr = NoLinksFound
    /\ exit_status # 0
    /\ ~out_file.exists

\* C4: whatever createdAt and tags the entries of a list-shaped bookmarks
\* collection hold, collect_links completes without raising.
C4_NormalisationNeverAborts ==
    ListShaped => pc # "crashed"

RECURSIVE LinksOf(_)
LinksOf(collections) ==
    IF collections = << >> THEN << >>
    ELSE Head(collections).links \o LinksOf(Tail(collections))

Ended == pc \in {"done", "crashed", "exited"}

\* C9: a run over a bookmarks list with two or more usable entries ends with
\* the links in reverse of the stored order of those entries: the k-th link,
\* with id k, is built from the k-th usable entry counted from the end of the
\* list.
C9_ReverseOrderKept ==
    (ListShaped /\ Ended /\ Len(UsableOf(Bookmarks)) >= 2) =>
        LET usable == UsableOf(Bookmarks)
            links == IF Built THEN LinksOf(payloads[1].returned["collections"].items) ELSE << >>
            n == Len(usable)
        IN  /\ Len(links) = n
            /\ \A k \in 1..n :
                 /\ links[k].id = k
                 /\ links[k].url = usable[n + 1 - k].url.s
                 /\ links[k].name = (IF usable[n + 1 - k].title.present /\ usable[n + 1 - k].title.s # ""
                                     THEN usable[n + 1 - k].title.s
                                     ELSE usable[n + 1 - k].url.s)

(***************************************************************************)
(* Claims about normalise_tags (SpecTags).                                 *)
(***************************************************************************)
Spaces(n) == [i \in 1..n |-> " "]

\* t is s without its leading and trailing whitespace
IsTrimOf(t, s) ==
    /\ t = << >> \/ (t[1] # " " /\ t[Len(t)] # " ")
    /\ \E a \in 0..Len(s) : \E b \in 0..Len(s) :
         a + Len(t) + b = Len(s) /\ s = Spaces(a) \o t \o Spaces(b)

\* entry i of the input is a string whose trimmed form is the non-empty t
TrimsTo(in, i, t) == in[i].k = "str" /\ t # << >> /\ IsTrimOf(t, in[i].s)

FirstOccurrence(in, t) ==
    CHOOSE i \in 1..Len(in) : TrimsTo(in, i, t) /\ \A j \in 1..(i - 1) : ~TrimsTo(in, j, t)

\* C6: normalise_tags returns exactly the trimmed, non-empty string entries of
\* its input, each distinct trimmed value once, in the order of first
\* occurrence, and never fails on non-string or blank entries.
C6_TagsTrimmedUniqueInOrder ==
    tags_out.err # Pending =>
        LET in == tags_in.l
            out == tags_out.tags
        IN  /\ tags_out.err = ""
            /\ \A j \in 1..Len(out) : \E i \in 1..Len(in) : TrimsTo(in, i, out[j])
            /\ \A i \in 1..Len(in) : \A t \in TagStrings :
                 TrimsTo(in, i, t) => \E j \in 1..Len(out) : out[j] = t
            /\ \A j \in 1..Len(out) : \A k \in 1..Len(out) :
                 j < k => /\ out[j] # out[k]
                          /\ FirstOccurrence(in, out[j]) < FirstOccurrence(in, out[k])

\* a list with a later duplicate that differs only by whitespace has been normalised
C6_Witness ==
    /\ tags_out.err = ""
    /\ Len(tags_out.tags) = 2
    /\ \E i \in 1..Len(tags_in.l) : \E j \in 1..Len(tags_in.l) :
         /\ i < j
         /\ tags_in.l[i].k = "str" /\ tags_in.l[j].k = "str"
         /\ tags_in.l[i].s # tags_in.l[j].s
         /\ strip(tags_in.l[i].s) = strip(tags_in.l[j].s)
         /\ strip(tags_in.l[i].s) # << >>

\* C7: normalising an already normalised tag list returns it unchanged.
C7_TagsIdempotent ==
    tags_twice.err # Pending =>
        tags_twice.err = "" /\ tags_twice.tags = tags_out.tags

\* the second normalisation has run on a result that differs from the input
C7_Witness ==
    /\ tags_twice.err = ""
    /\ Len(tags_out.tags) >= 1
    /\ AsJList(tags_out.tags) # tags_in

(***************************************************************************)
(* Claims about parse_timestamp (SpecTime).                                *)
(***************************************************************************)
TsDone == ts_result.raised # Pending
TsReturned == ts_result.raised = ""
TsDefaultUsed == IF ts_default.given THEN ts_default.dt ELSE now_dt

\* C5: the returned instant is timezone-aware in UTC and the string form ends
\* in Z and carries no numeric offset.
C5_AlwaysUtcWithZ ==
    (TsDone /\ TsReturned) =>
        /\ ts_result.dt.aware /\ ts_result.dt.off = 0
        /\ endswith(ts_result.iso, ZSuffix)
        /\ \A i \in 1..Len(ts_result.iso) : ts_result.iso[i] \notin {"+", "-"}

IsEpochInput(v) == v.k \in {"num", "bool"} \/ (v.k = "str" /\ isdigit(v.s))
EpochSeconds(v) == IF v.k = "str" THEN DecimalValue(v.s) ELSE v.n
ValidEpoch(v) == IsEpochInput(v) /\ InRange(EpochOrd + EpochSeconds(v))
ParsesAsIso(v) == v.k = "str" /\ IsoAttempt(v).err = ""

\* C10: every call returns, by this priority: a valid epoch number or digit
\* string gives that many seconds since the epoch, in UTC; otherwise a string
\* that parses as a date-time gives that instant; otherwise the default
\* instant is returned.
C10_TimestampPriority ==
    TsDone =>
        /\ TsReturned
        /\ IF ValidEpoch(ts_value)
           THEN ts_result.dt = UtcAt(EpochOrd + EpochSeconds(ts_value))
           ELSE IF ParsesAsIso(ts_value)
           THEN Instant(ts_result.dt) = Instant(IsoAttempt(ts_value).dt)
           ELSE Instant(ts_result.dt) = Instant(TsDefaultUsed)

(***************************************************************************)
(* What the calls and runs that do not raise satisfy.  These hold in every *)
(* reachable state; the claims above also cover the calls that raise.      *)
(***************************************************************************)
\* a grouping that collect_links returned holds one record per usable entry
RecordsMatchWhenReturned ==
    Collected =>
        LET usable == UsableOf(Bookmarks)
            records == AllRecords(grouped_links)
        IN  /\ Len(records) = Len(usable)
            /\ \A i \in 1..Len(records) : records[i].url = usable[Len(usable) + 1 - i].url.s

\* a document that was built lists the usable entries in reverse
ReverseOrderWhenBuilt ==
    Built =>
        LET usable == UsableOf(Bookmarks)
            links == LinksOf(payloads[1].returned["collections"].items)
            n == Len(usable)
        IN  /\ Len(links) = n
            /\ \A k \in 1..n : links[k].id = k /\ links[k].url = usable[n + 1 - k].url.s

\* a call of parse_timestamp that returned followed the priority
PriorityWhenReturned ==
    (TsDone /\ TsReturned) =>
        IF ValidEpoch(ts_value)
        THEN ts_result.dt = UtcAt(EpochOrd + EpochSeconds(ts_value))
        ELSE IF ParsesAsIso(ts_value)
        THEN Instant(ts_result.dt) = Instant(IsoAttempt(ts_value).dt)
        ELSE Instant(ts_result.dt) = Instant(TsDefaultUsed)

====
